---- MODULE Spec2Model ----
(***************************************************************************)
(* The acquisition engine of the LC-MS simulator: the state atom, the      *)
(* control handlers (start, stop, status), the producer task               *)
(* run_acquisition and the scan generator, one step per shared-memory      *)
(* operation (atomic load/store, mutex section, channel send).             *)
(***************************************************************************)
EXTENDS Integers, Sequences, FiniteSets, TLC

\* ------------------------------------------------------------ bounds
\* start_acquisition calls the clients make in one behaviour.
MaxStartCalls == 2
\* stop_acquisition calls the clients make in one behaviour.
MaxStopCalls == 1
\* get_status calls the clients make in one behaviour.
MaxStatusCalls == 1
\* Scans sent on the bus in one behaviour (the history kept of them).
MaxPublished == 3
\* stream_scans subscribers attached at once.
MaxReceivers == 1
\* pause_acquisition and resume_acquisition calls the clients make in one
\* behaviour.
MaxControlCalls == 1
\* The capacity of the broadcast channel (100_000 in the source), scaled down
\* so that a subscriber can lag within MaxPublished scans.
BusCapacity == 2
\* The longest m/z and intensity sequences given to calculate_aggregates.
MaxPeaks == 3
\* The largest peak_count given to generate_ms2 (the override of
\* ms2_peak_count; the default draws 50..300).
MaxPeakCount == 6
\* Ticks of the interval followed when the pacing is taken on its own.
MaxTicks == 12

\* ------------------------------------------------------------ values
None == << >>
Some(v) == <<v>>
IsSome(o) == Len(o) = 1
Unwrap(o) == o[1]

\* AcquisitionState as the u8 the state atom holds.
Idle == "Idle"
Starting == "Starting"
Acquiring == "Acquiring"
Paused == "Paused"
Stopping == "Stopping"
Completed == "Completed"
Faulted == "Faulted"

\* get_state: the decoding of the atom's byte.
get_state(u) ==
    CASE u = 0 -> Idle
      [] u = 1 -> Starting
      [] u = 2 -> Acquiring
      [] u = 3 -> Paused
      [] u = 4 -> Stopping
      [] u = 5 -> Completed
      [] u = 6 -> Faulted
      [] OTHER -> Idle

\* `state as u8`, the byte set_state stores.
StateByte(s) == CHOOSE u \in 0..6 : get_state(u) = s

\* ------------------------------------------------------------ requests
\* SimulationParameters: the fields run_acquisition and the claims read.
\* scan_rate in scans per second, m/z in daltons, both whole numbers here.
\* A value <= 0 is the "unset" value the code replaces by its default.
DefaultScanRate == 2
DefaultMs2PerMs1 == 4
DefaultMinMz == 200
DefaultMaxMz == 2000
\* The timer period, in milliseconds.
TickMillis == 10

\* The StartAcquisitionRequest envelopes the clients send.
Params(rate, ms2, lo, hi, seed) ==
    [scan_rate |-> rate, ms2_per_ms1 |-> ms2, min_mz |-> lo, max_mz |-> hi,
     random_seed |-> seed]

Request(sim, cap, dur) ==
    [simulation |-> sim, max_scans |-> cap, max_duration_seconds |-> dur]

\* 200 scans/s in cycles of two scans: one cycle per tick.
ValidParams == Params(200, 1, 200, 300, 42)

ReqUncapped == Request(ValidParams, None, None)
ReqCapped(n) == Request(ValidParams, Some(n), None)
\* 1000 scans/s in cycles of five (ms2_per_ms1 unset): two cycles per tick;
\* m/z range unset; ends by duration.
ReqTimed == Request(Params(1000, 0, 0, 0, 42), None, Some(1))
\* 100 scans/s in cycles of two: half a cycle per tick; entropy seed asked for.
ReqSlow == Request(Params(100, 1, 200, 300, 0), Some(1), None)
\* min_mz >= max_mz.
ReqInverted == Request(Params(200, 1, 500, 300, 42), Some(1), None)
\* max_mz unset and min_mz above the default max_mz.
ReqAboveDefault == Request(Params(200, 1, 2500, 0, 42), Some(1), None)
\* 0 < min_mz < max_mz, every MS1 peak below 105 Da.
ReqLowMz == Request(Params(200, 1, 50, 100, 42), Some(2), None)

Requests ==
    {ReqUncapped, ReqTimed, ReqSlow, ReqInverted, ReqAboveDefault, ReqLowMz}
    \cup {ReqCapped(n) : n \in 0..2}

\* The client workloads explored: how many calls of each operation the
\* clients make in one behaviour, how many subscribers attach, and the
\* requests the start calls carry.
Workload(nstart, nstop, nstatus, nrecv, ncontrol, reqs) ==
    [start |-> nstart, stop |-> nstop, status |-> nstatus, receivers |-> nrecv,
     control |-> ncontrol, requests |-> reqs]

\* requests names the set the start calls draw from.
RequestsOf(name) ==
    IF name = "capped" THEN {ReqCapped(1), ReqCapped(2)}
    ELSE IF name = "one" THEN {ReqCapped(1)}
    ELSE IF name = "two" THEN {ReqCapped(2)}
    ELSE IF name = "uncapped" THEN {ReqUncapped}
    ELSE Requests

Workloads ==
    { \* restarts and racing starts
      Workload(MaxStartCalls, 0, 0, 0, 0, "one"),
      Workload(2, 0, 0, 0, 0, "capped"),
      \* two starts and stops
      Workload(2, 1, 0, 0, 0, "two"),
      \* one session of any kind, with stops
      Workload(1, MaxStopCalls, 0, 0, 0, "any"),
      \* one session of any kind, with status calls
      Workload(1, 0, MaxStatusCalls, 0, 0, "any"),
      \* one session, with subscribers
      Workload(1, 0, 0, MaxReceivers, 0, "uncapped"),
      \* one session, stopped, with pause and resume calls
      Workload(1, MaxStopCalls, 0, 0, MaxControlCalls, "one") }

\* The workloads of the behaviours checked under fair scheduling.
FairWorkloads ==
    { Workload(1, MaxStopCalls, 0, 0, 0, "any"),
      Workload(1, 0, MaxStatusCalls, 0, 0, "any"),
      Workload(1, 0, 0, MaxReceivers, MaxControlCalls, "uncapped") }

NoRequest == Request(Params(0, 0, 0, 0, 0), None, None)

\* ------------------------------------------------------------ state
VARIABLES
    state,        \* SimulatorServiceImpl.state, the atomic byte
    scan_count,   \* SimulatorServiceImpl.scan_count
    session_id,   \* SimulatorServiceImpl.session_id, an Option<String>
    generator,    \* SimulatorServiceImpl.generator, the ScanGenerator
    receivers,    \* receivers of scan_sender now attached
    published,    \* every scan handed to scan_sender.send, in order
    producers,    \* the tasks tokio::spawn created, in spawn order
    starts,       \* the start_acquisition handlers
    stop,         \* the stop_acquisition handler
    status,       \* the get_status handler
    sessions,     \* history: each accepted start, and where it fell in published
    cancelled,    \* history: producers alive when a stop was issued, and the state then
    calls,        \* history: calls made so far, by operation
    workload,     \* the client workload of this behaviour
    streams,      \* the stream_scans streams now attached, each with its receiver
    control,      \* the last reply of pause_acquisition / resume_acquisition
    synth,        \* a ScanGenerator call on its own: inputs, position, result
    pacing        \* the pacing arithmetic of run_acquisition on its own

vars == <<state, scan_count, session_id, generator, receivers, streams,
          published, producers, starts, stop, status, sessions, cancelled,
          calls, workload, control, synth, pacing>>

StartSlots == {1, 2}

\* uuid::Uuid::new_v4().to_string()[..8]: a fresh 8-character string per mint.
SessionIds == <<"0f3a9c11", "7be2d405", "c41d88e0", "5a90e7b3">>

\* The seeds StdRng::from_entropy can return.
Entropy == {1, 2}

\* ------------------------------------------------------------ generator
\* ScanGenerator::new: counters zeroed, the generator seeded from entropy e.
\* The random stream is the pair (seed, draws taken so far).
ScanGeneratorNew(e) ==
    [scan_number |-> 0, retention_time |-> 0, random |-> [seed |-> e, pos |-> 0]]

\* One block of draws from the stream: the values drawn are a function of the
\* seed and of the position in the stream.
Draw(random) == <<random.seed, random.pos>>
Advance(random) == [random EXCEPT !.pos = @ + 1]

\* gen_range(lo..hi) panics on an empty range.
RangeEmpty(lo, hi) == lo >= hi

\* generate_ms1: retention_time counts steps of 0.5/60 minutes. Of the
\* spectrum the scan keeps the draws it was made from and the m/z range
\* [min_mz, max_mz) its base and noise peaks were drawn in.
generate_ms1(gen, min_mz, max_mz) ==
    [scan |-> [scan_number |-> gen.scan_number + 1, ms_order |-> 1,
               retention_time |-> gen.retention_time,
               spectrum |-> Draw(gen.random), mz_range |-> <<min_mz, max_mz>>,
               precursor |-> None],
     gen |-> [scan_number |-> gen.scan_number + 1,
              retention_time |-> gen.retention_time + 1,
              random |-> Advance(gen.random)]]

\* The generator a panic inside generate_ms1 leaves behind: the counter was
\* incremented before generate_spectrum drew from the empty range.
generate_ms1_panicked(gen) == [gen EXCEPT !.scan_number = @ + 1]

\* select_precursor: the m/z of one peak of the MS1 scan, the peak picked by
\* the next draw (whole daltons of the range the peaks were drawn in).
select_precursor(random, ms1_scan) ==
    LET lo == ms1_scan.mz_range[1]
        hi == ms1_scan.mz_range[2]
        d == Draw(random)
    IN lo + ((d[1] + d[2]) % (hi - lo))

\* The fragment range of generate_ms2, both ends in hundredths of a dalton:
\* [100.0, precursor_mz * 0.95).
FragmentMinMz == 100 * 100
FragmentMaxMz(precursor_mz) == precursor_mz * 95

\* select_precursor followed by generate_ms2, under one lock of the generator.
generate_ms2(gen, ms1_scan) ==
    LET precursor_mz == select_precursor(gen.random, ms1_scan) IN
    [scan |-> [scan_number |-> gen.scan_number + 1, ms_order |-> 2,
               retention_time |-> gen.retention_time,
               spectrum |-> Draw(Advance(gen.random)),
               mz_range |-> <<FragmentMinMz, FragmentMaxMz(precursor_mz)>>,
               precursor |-> Some(<<ms1_scan.spectrum, precursor_mz>>)],
     gen |-> [scan_number |-> gen.scan_number + 1,
              retention_time |-> gen.retention_time,
              random |-> Advance(Advance(gen.random))]]

\* The generator a panic inside generate_ms2 leaves behind: the counter was
\* incremented and the precursor drawn before generate_spectrum drew from
\* the empty range.
generate_ms2_panicked(gen) ==
    [gen EXCEPT !.scan_number = @ + 1, !.random = Advance(gen.random)]

NoScan == [scan_number |-> 0, ms_order |-> 0, retention_time |-> 0,
           spectrum |-> <<0, 0>>, mz_range |-> <<0, 0>>, precursor |-> None]

\* ------------------------------------------------------------ producer locals
\* run_acquisition's derived settings (lines 71-88), as functions of the request.
ScanRate(req) ==
    IF req.simulation.scan_rate > 0 THEN req.simulation.scan_rate ELSE DefaultScanRate

Ms2PerMs1(req) ==
    IF req.simulation.ms2_per_ms1 > 0 THEN req.simulation.ms2_per_ms1 ELSE DefaultMs2PerMs1

ScansPerCycle(req) == 1 + Ms2PerMs1(req)

\* The f64 values of the pacing, exactly: a value x in [0, 4) that is a
\* multiple of 2^-56 is the pair <<hi, lo>> with x * 2^56 = hi * 2^28 + lo and
\* lo < 2^28. Every f64 from 1/16 up is such a multiple.
Limb == 2^28

\* cycles_per_tick = scan_rate / scans_per_cycle as f64 * tick.as_secs_f64()
\* (lines 74 and 78, the tick of TickMillis): the f64 the two roundings give,
\* for the rates and cycle lengths explored.
cycles_per_tick(scan_rate, scans_per_cycle) ==
    CASE
         <<scan_rate, scans_per_cycle>> = <<50, 5>> -> <<26843545, 161061274>>   \* 0.1
      [] <<scan_rate, scans_per_cycle>> = <<60, 2>> -> <<80530636, 214748364>>   \* 0.3
      [] <<scan_rate, scans_per_cycle>> = <<70, 5>> -> <<37580963, 225485784>>   \* 0.14
      [] <<scan_rate, scans_per_cycle>> = <<100, 2>> -> <<134217728, 0>>   \* 0.5
      [] <<scan_rate, scans_per_cycle>> = <<110, 2>> -> <<147639500, 214748368>>   \* 0.55
      [] <<scan_rate, scans_per_cycle>> = <<140, 2>> -> <<187904819, 53687096>>   \* 0.7000000000000001
      [] <<scan_rate, scans_per_cycle>> = <<190, 2>> -> <<255013683, 53687096>>   \* 0.9500000000000001
      [] <<scan_rate, scans_per_cycle>> = <<200, 2>> -> <<268435456, 0>>   \* 1.0
      [] <<scan_rate, scans_per_cycle>> = <<250, 2>> -> <<335544320, 0>>   \* 1.25
      [] <<scan_rate, scans_per_cycle>> = <<330, 3>> -> <<295279001, 161061280>>   \* 1.1
      [] <<scan_rate, scans_per_cycle>> = <<1000, 5>> -> <<536870912, 0>>   \* 2.0

\* The unit in the last place of the f64 values in the binade of <<hi, _>>, in
\* units of 2^-56: an f64 has 53 significant bits.
UnitInLastPlace(hi) ==
    IF hi >= 2 * Limb THEN 32
    ELSE IF hi >= Limb THEN 16
    ELSE IF 2 * hi >= Limb THEN 8
    ELSE IF 4 * hi >= Limb THEN 4
    ELSE IF 8 * hi >= Limb THEN 2
    ELSE 1

\* a + b in f64: the exact sum rounded to the nearest f64, ties to even.
F64Add(a, b) ==
    LET lo == (a[2] + b[2]) % Limb
        hi == a[1] + b[1] + ((a[2] + b[2]) \div Limb)
        ulp == UnitInLastPlace(hi)
        rest == lo % ulp
        down == lo - rest
        up == 2 * rest > ulp \/ (2 * rest = ulp /\ (down \div ulp) % 2 = 1)
        rounded == IF up THEN down + ulp ELSE down
    IN IF rounded = Limb THEN <<hi + 1, 0>> ELSE <<hi, rounded>>

\* x.floor() as i64, for x >= 0.
F64Floor(a) == a[1] \div Limb

\* The accumulator set to zero in place of the subtraction.
F64DropFraction(a, k) == <<0, 0>>

\* a - k as f64 for the integer k = floor(a): exact.
F64SubInt(a, k) == <<a[1] - k * Limb, a[2]>>

MinMz(req) == IF req.simulation.min_mz > 0 THEN req.simulation.min_mz ELSE DefaultMinMz
MaxMz(req) == IF req.simulation.max_mz > 0 THEN req.simulation.max_mz ELSE DefaultMaxMz

\* The task as tokio::spawn creates it: nothing of run_acquisition has run.
\* cycle_accumulator is an f64, 0.0 at first.
\* History: sent, the ms_order of each scan the task has sent, in order.
NewTask(req) ==
    [pc |-> "spawned", req |-> req, cycle_accumulator |-> <<0, 0>>, cycles_left |-> 0,
     ms2_left |-> 0, scans_generated |-> 0, ms1_scan |-> NoScan, scan |-> NoScan,
     expired |-> FALSE, sent |-> << >>]

\* A task that has returned or panicked holds nothing any more.
Ended(pc, t) == [NewTask(t.req) EXCEPT !.pc = pc, !.sent = t.sent]

Alive(t) == t.pc \notin {"done", "panicked"}
AliveProducers == {p \in 1..Len(producers) : Alive(producers[p])}

\* The cap compared with > for >=.
CapReachedLate(t) ==
    IsSome(t.req.max_scans) /\ t.scans_generated > Unwrap(t.req.max_scans)

\* scans_generated >= max as i64, when max_scans is set.
CapReached(t) ==
    IsSome(t.req.max_scans) /\ t.scans_generated >= Unwrap(t.req.max_scans)

\* start_time.elapsed() > max_secs, when max_duration_seconds is set.
DurationReached(t) == IsSome(t.req.max_duration_seconds) /\ t.expired

\* clone().unwrap_or_default() of the session-id cell (line 219): "" when there is none.
SessionString(cell) == IF IsSome(cell) THEN Unwrap(cell) ELSE ""

\* What the three cells of the service hold together at one instant, as
\* get_status would report them.
Held(atom, counter, cell) ==
    [state |-> get_state(atom), scan_count |-> counter,
     session_id |-> SessionString(cell)]

\* ------------------------------------------------------------ Init
NoStartReply == [success |-> FALSE, session_id |-> "", error_message |-> <<>>]

IdleStart == [pc |-> "idle", req |-> NoRequest, k |-> 0, reply |-> NoStartReply]
IdleStop == [pc |-> "idle", final_scan_count |-> -1]
\* History: seen, the values the session-id cell, the state atom and the
\* counter held together at the instants of the last get_status call.
IdleStatus == [pc |-> "idle", session_id |-> "", state |-> Idle, scan_count |-> -1,
               seen |-> {}]
NoControlReply == [op |-> "", success |-> FALSE, error_message |-> ""]

\* The generator and the pacing arithmetic are not exercised on their own
\* while the service runs.
NoSynth == [pc |-> "off"]
NoPacing == [pc |-> "off"]

\* SimulatorServiceImpl::new, and the workload the clients will run.
InitWith(workloads) ==
    /\ state = StateByte(Idle)
    /\ scan_count = 0
    /\ session_id = None
    /\ \E e \in Entropy : generator = ScanGeneratorNew(e)
    /\ receivers = 0
    /\ published = << >>
    /\ producers = << >>
    /\ starts = [h \in StartSlots |-> IdleStart]
    /\ stop = IdleStop
    /\ status = IdleStatus
    /\ sessions = << >>
    /\ cancelled = {}
    /\ calls = [start |-> 0, stop |-> 0, status |-> 0, control |-> 0]
    /\ workload \in workloads
    /\ streams = << >>
    /\ control = NoControlReply

Init == InitWith(Workloads) /\ synth = NoSynth /\ pacing = NoPacing

\* The get_status handler after a write to one of the three cells: while a
\* call is in progress its history gains what the cells hold now.
Observed(atom, counter, cell) ==
    IF status.pc = "idle" THEN status
    ELSE [status EXCEPT !.seen = @ \cup {Held(atom, counter, cell)}]

\* ------------------------------------------------------------ start_acquisition
\* A start also let through while the last session is still stopping.
StartAllowedWhileStopping(current_state) ==
    current_state \in {Idle, Completed, Stopping}

\* The precondition of line 235.
StartAllowed(current_state) == current_state \in {Idle, Completed}

\* The reply of lines 236-240.
StartRejected(current_state) ==
    [success |-> FALSE, session_id |-> "",
     error_message |-> <<"Cannot start acquisition in state", current_state>>]

\* The reply of lines 274-278.
StartAccepted(sid) == [success |-> TRUE, session_id |-> sid, error_message |-> <<>>]

\* A call arrives and reads the state atom (line 234): rejected on the spot,
\* or on its way to the writes.
StartCheck(h, req) ==
    /\ starts[h].pc = "idle"
    /\ \A g \in StartSlots : g < h => starts[g].pc # "idle"
    /\ calls.start < workload.start
    /\ calls' = [calls EXCEPT !.start = @ + 1]
    /\ LET current_state == get_state(state) IN
       IF ~StartAllowed(current_state)
       THEN /\ starts' = [starts EXCEPT ![h] =
                    [IdleStart EXCEPT !.reply = StartRejected(current_state)]]
            /\ UNCHANGED sessions
       ELSE /\ starts' = [starts EXCEPT ![h] =
                    [pc |-> "session", req |-> req, k |-> Len(sessions) + 1,
                     reply |-> NoStartReply]]
            /\ sessions' = Append(sessions, [req |-> req, from |-> Len(published)])
    /\ UNCHANGED <<state, scan_count, session_id, generator, receivers,
                   streams, published, producers, stop, status, cancelled,
                   workload, control, synth, pacing>>

\* Lines 244-246: mint the session id and store it under the mutex.
StartSetSession(h) ==
    /\ starts[h].pc = "session"
    /\ session_id' = Some(SessionIds[starts[h].k])
    /\ starts' = [starts EXCEPT ![h].pc = "count"]
    /\ status' = Observed(state, scan_count, session_id')
    /\ UNCHANGED <<state, scan_count, generator, receivers, streams, published,
                   producers, stop, sessions, cancelled, calls,
                   workload, control, synth, pacing>>

\* Line 247.
StartResetCount(h) ==
    /\ starts[h].pc = "count"
    /\ scan_count' = 0
    /\ starts' = [starts EXCEPT ![h].pc = "state"]
    /\ status' = Observed(state, scan_count', session_id)
    /\ UNCHANGED <<state, session_id, generator, receivers, streams, published,
                   producers, stop, sessions, cancelled, calls,
                   workload, control, synth, pacing>>

\* Line 248.
StartSetStarting(h) ==
    /\ starts[h].pc = "state"
    /\ state' = StateByte(Starting)
    /\ starts' = [starts EXCEPT ![h].pc = "generator"]
    /\ status' = Observed(state', scan_count, session_id)
    /\ UNCHANGED <<scan_count, session_id, generator, receivers, streams,
                   published, producers, stop, sessions, cancelled,
                   calls, workload, control, synth, pacing>>

\* Line 251: the generator is replaced by a new, entropy-seeded one.
StartResetGenerator(h) ==
    /\ starts[h].pc = "generator"
    /\ \E e \in Entropy : generator' = ScanGeneratorNew(e)
    /\ starts' = [starts EXCEPT ![h].pc = "spawn"]
    /\ UNCHANGED <<state, scan_count, session_id, receivers, streams,
                   published, producers, stop, status, sessions, cancelled,
                   calls, workload, control, synth, pacing>>

\* Lines 254-278: spawn the producer task and reply.
StartSpawn(h) ==
    /\ starts[h].pc = "spawn"
    /\ producers' = Append(producers, NewTask(starts[h].req))
    /\ starts' = [starts EXCEPT ![h] =
            [IdleStart EXCEPT !.reply = StartAccepted(SessionIds[starts[h].k])]]
    /\ UNCHANGED <<state, scan_count, session_id, generator, receivers,
                   streams, published, stop, status, sessions, cancelled,
                   calls, workload, control, synth, pacing>>

\* ------------------------------------------------------------ stop_acquisition
\* A call arrives and stores Stopping (line 285).
StopSetStopping ==
    /\ stop.pc = "idle"
    /\ calls.stop < workload.stop
    /\ calls' = [calls EXCEPT !.stop = @ + 1]
    /\ state' = StateByte(Stopping)
    /\ stop' = [pc |-> "count", final_scan_count |-> -1]
    /\ cancelled' = cancelled \cup
            {[producer |-> p, state |-> get_state(state)] : p \in AliveProducers}
    /\ status' = Observed(state', scan_count, session_id)
    /\ UNCHANGED <<scan_count, session_id, generator, receivers, streams,
                   published, producers, starts, sessions, workload,
                   control, synth, pacing>>

\* Lines 287-293: read the counter and reply.
StopReply ==
    /\ stop.pc = "count"
    /\ stop' = [pc |-> "idle", final_scan_count |-> scan_count]
    /\ UNCHANGED <<state, scan_count, session_id, generator, receivers,
                   streams, published, producers, starts, status, sessions,
                   cancelled, calls, workload, control, synth, pacing>>

\* ------------------------------------------------------------ get_status
\* A call arrives and clones the session id under the mutex (line 219).
StatusSession ==
    /\ status.pc = "idle"
    /\ calls.status < workload.status
    /\ calls' = [calls EXCEPT !.status = @ + 1]
    /\ status' = [pc |-> "state",
                  session_id |-> SessionString(session_id),
                  state |-> Idle, scan_count |-> -1,
                  seen |-> {Held(state, scan_count, session_id)}]
    /\ UNCHANGED <<state, scan_count, session_id, generator, receivers,
                   streams, published, producers, starts, stop, sessions,
                   cancelled, workload, control, synth, pacing>>

\* Line 222.
StatusState ==
    /\ status.pc = "state"
    /\ status' = [status EXCEPT !.pc = "count", !.state = get_state(state)]
    /\ UNCHANGED <<state, scan_count, session_id, generator, receivers,
                   streams, published, producers, starts, stop, sessions,
                   cancelled, calls, workload, control, synth, pacing>>

\* Line 223, and the reply.
StatusCount ==
    /\ status.pc = "count"
    /\ status' = [status EXCEPT !.pc = "idle", !.scan_count = scan_count]
    /\ UNCHANGED <<state, scan_count, session_id, generator, receivers,
                   streams, published, producers, starts, stop, sessions,
                   cancelled, calls, workload, control, synth, pacing>>

\* ------------------------------------------------------------ stream_scans
\* A stream as stream_scans builds it: the receiver's position on the bus
\* (scans sent before it are not seen), what the stream has yielded to the
\* peer, and history: where it attached, which scans it yielded, the scans
\* its lag events dropped.
NewStream ==
    [next |-> Len(published), received |-> << >>,
     from |-> Len(published), positions |-> << >>, lagged |-> 0]

\* The oldest scan the channel still holds.
Oldest == IF Len(published) > BusCapacity THEN Len(published) - BusCapacity ELSE 0

\* receiver.recv(), for a receiver with something to read: the scan at its
\* position, or Lagged(n) when that scan was overwritten.
RecvResult(s) ==
    IF s.next < Oldest
    THEN [ok |-> FALSE, lagged |-> Oldest - s.next]
    ELSE [ok |-> TRUE, scan |-> published[s.next + 1]]

\* A filter that passes the error on to the peer.
filter_map_forwarding(result) == Some(result)

\* The closure of filter_map (lines 202-210): a scan is yielded, an error is
\* logged and dropped.
filter_map(result) == IF result.ok THEN Some(result) ELSE None

\* scan_sender.subscribe() (line 200) and the stream around the receiver.
Subscribe ==
    /\ receivers < workload.receivers
    /\ receivers' = receivers + 1
    /\ streams' = Append(streams, NewStream)
    /\ UNCHANGED <<state, scan_count, session_id, generator, published,
                   producers, starts, stop, status, sessions, cancelled, calls,
                   workload, control, synth, pacing>>

\* The peer polls stream i, which polls its receiver: one result of recv goes
\* through filter_map.
StreamPoll(i) ==
    LET s == streams[i]
        result == RecvResult(s)
        item == filter_map(result)
    IN
    /\ s.next < Len(published)
    /\ streams' = [streams EXCEPT ![i] =
         [s EXCEPT !.next = IF result.ok THEN s.next + 1 ELSE Oldest,
                   !.lagged = IF result.ok THEN @ ELSE @ + result.lagged,
                   !.received = IF IsSome(item) THEN Append(@, Unwrap(item)) ELSE @,
                   !.positions = IF result.ok THEN Append(@, s.next + 1) ELSE @]]
    /\ UNCHANGED <<state, scan_count, session_id, generator, receivers,
                   published, producers, starts, stop, status, sessions,
                   cancelled, calls, workload, control, synth, pacing>>

\* The peer of stream i disconnects and the stream, with its receiver, is
\* dropped.
Disconnect(i) ==
    /\ receivers' = receivers - 1
    /\ streams' = [j \in 1..(Len(streams) - 1) |->
                      IF j < i THEN streams[j] ELSE streams[j + 1]]
    /\ UNCHANGED <<state, scan_count, session_id, generator, published,
                   producers, starts, stop, status, sessions, cancelled, calls,
                   workload, control, synth, pacing>>

\* ------------------------------------------------------------ pause / resume
\* A pause reply that claims success.
PauseReplySuccess ==
    [op |-> "pause", success |-> TRUE, error_message |-> ""]

\* The reply of pause_acquisition (lines 300-303).
PauseReply ==
    [op |-> "pause", success |-> FALSE,
     error_message |-> "Pause not implemented in simulator"]

\* The reply of resume_acquisition (lines 310-313).
ResumeReply ==
    [op |-> "resume", success |-> FALSE,
     error_message |-> "Resume not implemented in simulator"]

\* pause_acquisition: the whole handler.
PauseAcquisition ==
    /\ calls.control < workload.control
    /\ calls' = [calls EXCEPT !.control = @ + 1]
    /\ control' = PauseReply
    /\ UNCHANGED <<state, scan_count, session_id, generator, receivers,
                   streams, published, producers, starts, stop, status,
                   sessions, cancelled, workload, synth, pacing>>

\* resume_acquisition: the whole handler.
ResumeAcquisition ==
    /\ calls.control < workload.control
    /\ calls' = [calls EXCEPT !.control = @ + 1]
    /\ control' = ResumeReply
    /\ UNCHANGED <<state, scan_count, session_id, generator, receivers,
                   streams, published, producers, starts, stop, status,
                   sessions, cancelled, workload, synth, pacing>>

\* ------------------------------------------------------------ run_acquisition
\* Lines 67-101: the task starts running and stores Acquiring.
RunEnter(p) ==
    /\ producers[p].pc = "spawned"
    /\ state' = StateByte(Acquiring)
    /\ producers' = [producers EXCEPT ![p].pc = "tick"]
    /\ status' = Observed(state', scan_count, session_id)
    /\ UNCHANGED <<scan_count, session_id, generator, receivers, streams,
                   published, starts, stop, sessions, cancelled, calls,
                   workload, control, synth, pacing>>

\* The wall clock passes max_duration_seconds (read at lines 118 and 142).
TimePasses(p) ==
    /\ Alive(producers[p])
    /\ IsSome(producers[p].req.max_duration_seconds)
    /\ ~producers[p].expired
    /\ producers' = [producers EXCEPT ![p].expired = TRUE]
    /\ UNCHANGED <<state, scan_count, session_id, generator, receivers,
                   streams, published, starts, stop, status, sessions,
                   cancelled, calls, workload, control, synth, pacing>>

\* The termination conditions of lines 107-121 and 133-145.
Terminate(t, current_state) ==
    current_state = Stopping \/ CapReached(t) \/ DurationReached(t)

\* The termination conditions of lines 161-169, inside the MS2 loop.
TerminateMs2(t, current_state) ==
    current_state = Stopping \/ CapReached(t)

\* Lines 104-129: a tick of the interval, the checks, the accumulator.
Tick(p) ==
    LET t == producers[p]
        acc == F64Add(t.cycle_accumulator,
                      cycles_per_tick(ScanRate(t.req), ScansPerCycle(t.req)))
        cycles_to_run == F64Floor(acc)
        rest == F64SubInt(acc, cycles_to_run)
    IN
    /\ t.pc = "tick"
    /\ producers' = [producers EXCEPT ![p] =
         IF Terminate(t, get_state(state))
         THEN [t EXCEPT !.pc = "exit"]
         ELSE [t EXCEPT !.cycle_accumulator = rest,
                        !.cycles_left = cycles_to_run,
                        !.pc = IF cycles_to_run <= 0 THEN "tick" ELSE "cycle"]]
    /\ UNCHANGED <<state, scan_count, session_id, generator, receivers,
                   streams, published, starts, stop, status, sessions,
                   cancelled, calls, workload, control, synth, pacing>>

\* Lines 131-145: the head of one cycle of the batch; a break leaves the batch.
CycleCheck(p) ==
    LET t == producers[p] IN
    /\ t.pc = "cycle"
    /\ producers' = [producers EXCEPT ![p] =
         IF Terminate(t, get_state(state))
         THEN [t EXCEPT !.pc = "tick", !.cycles_left = 0]
         ELSE [t EXCEPT !.pc = "ms1_generate"]]
    /\ UNCHANGED <<state, scan_count, session_id, generator, receivers,
                   streams, published, starts, stop, status, sessions,
                   cancelled, calls, workload, control, synth, pacing>>

\* Lines 148-151: generate_ms1 under the generator's lock. A draw from an empty
\* m/z range panics: the task dies and the lock is released.
Ms1Generate(p) ==
    LET t == producers[p]
        r == generate_ms1(generator, MinMz(t.req), MaxMz(t.req))
    IN
    /\ t.pc = "ms1_generate"
    /\ IF RangeEmpty(MinMz(t.req), MaxMz(t.req))
       THEN /\ generator' = generate_ms1_panicked(generator)
            /\ producers' = [producers EXCEPT ![p] = Ended("panicked", t)]
       ELSE /\ generator' = r.gen
            /\ producers' = [producers EXCEPT ![p].pc = "ms1_send",
                                              ![p].scan = r.scan,
                                              ![p].ms1_scan = r.scan]
    /\ UNCHANGED <<state, scan_count, session_id, receivers, streams,
                   published, starts, stop, status, sessions, cancelled, calls,
                   workload, control, synth, pacing>>

\* Lines 153 and 177: scan_sender.send; its result (an error when no receiver
\* is attached) is ignored.
Send(p, from, to) ==
    /\ producers[p].pc = from
    /\ Len(published) < MaxPublished
    /\ published' = Append(published, producers[p].scan)
    /\ producers' = [producers EXCEPT ![p].pc = to, ![p].scan = NoScan,
                                      ![p].sent = Append(@, producers[p].scan.ms_order)]
    /\ UNCHANGED <<state, scan_count, session_id, generator, receivers,
                   streams, starts, stop, status, sessions, cancelled, calls,
                   workload, control, synth, pacing>>

Ms1Send(p) == Send(p, "ms1_send", "ms1_count")

\* The task after one cycle of the batch (the end of the loop body of line 131).
EndCycle(t) ==
    [t EXCEPT !.ms2_left = 0, !.ms1_scan = NoScan,
              !.cycles_left = @ - 1,
              !.pc = IF t.cycles_left - 1 <= 0 THEN "tick" ELSE "cycle"]

\* Lines 156-157, and the entry of the MS2 loop.
Ms1Count(p) ==
    LET t == producers[p] IN
    /\ t.pc = "ms1_count"
    /\ scan_count' = scan_count + 1
    /\ producers' = [producers EXCEPT ![p] =
         [t EXCEPT !.scans_generated = @ + 1, !.ms2_left = Ms2PerMs1(t.req),
                   !.pc = "ms2_check"]]
    /\ status' = Observed(state, scan_count', session_id)
    /\ UNCHANGED <<state, session_id, generator, receivers, streams, published,
                   starts, stop, sessions, cancelled, calls, workload,
                   control, synth, pacing>>

\* Lines 160-169: the head of one pass of the MS2 loop.
Ms2Check(p) ==
    LET t == producers[p] IN
    /\ t.pc = "ms2_check"
    /\ producers' = [producers EXCEPT ![p] =
         IF TerminateMs2(t, get_state(state))
         THEN EndCycle(t)
         ELSE [t EXCEPT !.pc = "ms2_generate"]]
    /\ UNCHANGED <<state, scan_count, session_id, generator, receivers,
                   streams, published, starts, stop, status, sessions,
                   cancelled, calls, workload, control, synth, pacing>>

\* Lines 171-175: select_precursor and generate_ms2 under one lock. A draw
\* from an empty fragment range panics: the task dies and the lock is released.
Ms2Generate(p) ==
    LET t == producers[p]
        r == generate_ms2(generator, t.ms1_scan)
    IN
    /\ t.pc = "ms2_generate"
    /\ IF RangeEmpty(r.scan.mz_range[1], r.scan.mz_range[2])
       THEN /\ generator' = generate_ms2_panicked(generator)
            /\ producers' = [producers EXCEPT ![p] = Ended("panicked", t)]
       ELSE /\ generator' = r.gen
            /\ producers' = [producers EXCEPT ![p].pc = "ms2_send",
                                              ![p].scan = r.scan]
    /\ UNCHANGED <<state, scan_count, session_id, receivers, streams,
                   published, starts, stop, status, sessions, cancelled, calls,
                   workload, control, synth, pacing>>

Ms2Send(p) == Send(p, "ms2_send", "ms2_count")

\* Lines 180-181, and the end of one pass of the MS2 loop.
Ms2Count(p) ==
    LET t == producers[p]
        u == [t EXCEPT !.scans_generated = @ + 1, !.ms2_left = @ - 1]
    IN
    /\ t.pc = "ms2_count"
    /\ scan_count' = scan_count + 1
    /\ producers' = [producers EXCEPT ![p] =
         IF u.ms2_left <= 0 THEN EndCycle(u) ELSE [u EXCEPT !.pc = "ms2_check"]]
    /\ status' = Observed(state, scan_count', session_id)
    /\ UNCHANGED <<state, session_id, generator, receivers, streams, published,
                   starts, stop, sessions, cancelled, calls, workload,
                   control, synth, pacing>>

\* Lines 186-187: out of the loop, the task stores Completed and returns.
RunExit(p) ==
    /\ producers[p].pc = "exit"
    /\ state' = StateByte(Completed)
    /\ producers' = [producers EXCEPT ![p] = Ended("done", producers[p])]
    /\ status' = Observed(state', scan_count, session_id)
    /\ UNCHANGED <<scan_count, session_id, generator, receivers, streams,
                   published, starts, stop, sessions, cancelled, calls,
                   workload, control, synth, pacing>>

\* ------------------------------------------------------------ specification
ProducerStep(p) ==
    \/ RunEnter(p)
    \/ Tick(p)
    \/ CycleCheck(p)
    \/ Ms1Generate(p)
    \/ Ms1Send(p)
    \/ Ms1Count(p)
    \/ Ms2Check(p)
    \/ Ms2Generate(p)
    \/ Ms2Send(p)
    \/ Ms2Count(p)
    \/ RunExit(p)

Next ==
    \/ \E h \in StartSlots : \E req \in RequestsOf(workload.requests) : StartCheck(h, req)
    \/ \E h \in StartSlots : StartSetSession(h)
    \/ \E h \in StartSlots : StartResetCount(h)
    \/ \E h \in StartSlots : StartSetStarting(h)
    \/ \E h \in StartSlots : StartResetGenerator(h)
    \/ \E h \in StartSlots : StartSpawn(h)
    \/ StopSetStopping
    \/ StopReply
    \/ StatusSession
    \/ StatusState
    \/ StatusCount
    \/ Subscribe
    \/ \E i \in 1..Len(streams) : StreamPoll(i)
    \/ \E i \in 1..Len(streams) : Disconnect(i)
    \/ PauseAcquisition
    \/ ResumeAcquisition
    \/ \E p \in 1..Len(producers) : RunEnter(p)
    \/ \E p \in 1..Len(producers) : TimePasses(p)
    \/ \E p \in 1..Len(producers) : Tick(p)
    \/ \E p \in 1..Len(producers) : CycleCheck(p)
    \/ \E p \in 1..Len(producers) : Ms1Generate(p)
    \/ \E p \in 1..Len(producers) : Ms1Send(p)
    \/ \E p \in 1..Len(producers) : Ms1Count(p)
    \/ \E p \in 1..Len(producers) : Ms2Check(p)
    \/ \E p \in 1..Len(producers) : Ms2Generate(p)
    \/ \E p \in 1..Len(producers) : Ms2Send(p)
    \/ \E p \in 1..Len(producers) : Ms2Count(p)
    \/ \E p \in 1..Len(producers) : RunExit(p)

Spec == Init /\ [][Next]_vars

\* The steps the runtime takes by itself: a handler that has started runs to
\* its reply, a spawned task is scheduled, the interval ticks. The arrival of
\* a call, of a subscriber or of the deadline is the environment's.
HandlerStep(h) ==
    \/ StartSetSession(h)
    \/ StartResetCount(h)
    \/ StartSetStarting(h)
    \/ StartResetGenerator(h)
    \/ StartSpawn(h)

Run(p) == p \in 1..Len(producers) /\ ProducerStep(p)

Fairness ==
    /\ \A h \in StartSlots : WF_vars(HandlerStep(h))
    /\ WF_vars(StopReply)
    /\ WF_vars(StatusState \/ StatusCount)
    /\ \A p \in 1..MaxStartCalls : WF_vars(Run(p))

FairInit == InitWith(FairWorkloads) /\ synth = NoSynth /\ pacing = NoPacing

FairSpec == FairInit /\ [][Next]_vars /\ Fairness

\* ------------------------------------------------------------ the generator on its own
\* The variables of the service, which the generator's operations called on
\* their own leave alone.
service == <<state, scan_count, session_id, generator, receivers, streams,
             published, producers, starts, stop, status, sessions, cancelled,
             calls, workload, control>>

\* m/z in hundredths of a dalton; isotope_spacing = 1.003355.
isotope_spacing == 100

\* The comparison of line 212 with >= for >.
ReachesMax(intensity, max_intensity) == intensity >= max_intensity

\* The comparison of line 212.
ExceedsMax(intensity, max_intensity) == intensity > max_intensity

\* The loop of calculate_aggregates (lines 210-216), from index i on.
RECURSIVE aggregates_loop(_, _, _, _, _)
aggregates_loop(intensity_values, i, max_idx, max_intensity, tic) ==
    IF i > Len(intensity_values)
    THEN [max_idx |-> max_idx, max_intensity |-> max_intensity, tic |-> tic]
    ELSE LET intensity == intensity_values[i] IN
         IF ExceedsMax(intensity, max_intensity)
         THEN aggregates_loop(intensity_values, i + 1, i, intensity, tic + intensity)
         ELSE aggregates_loop(intensity_values, i + 1, max_idx, max_intensity,
                              tic + intensity)

\* calculate_aggregates: (base_peak_mz, base_peak_intensity, tic).
calculate_aggregates(mz_values, intensity_values) ==
    IF mz_values = << >> \/ intensity_values = << >>
    THEN <<0, 0, 0>>
    ELSE LET r == aggregates_loop(intensity_values, 1, 1, intensity_values[1], 0)
         IN <<mz_values[r.max_idx], r.max_intensity, r.tic>>

\* indices.sort_by(partial_cmp of the m/z) (line 165): a stable sort.
RECURSIVE sort_by(_, _)
sort_by(indices, mz_values) ==
    IF indices = << >> THEN << >>
    ELSE LET a == Head(indices)
             rest == sort_by(Tail(indices), mz_values)
             k == Cardinality({j \in 1..Len(rest) : mz_values[rest[j]] < mz_values[a]})
         IN SubSeq(rest, 1, k) \o <<a>> \o SubSeq(rest, k + 1, Len(rest))

\* The values a gen_range(lo..hi) can return: the ends of the range.
RangeDraws(lo, hi) == {lo, hi - 1}

\* The factors gen_range(0.4..0.8) and gen_range(0.1..0.4) can return, in
\* hundredths: the low end of each range.
A1Factors == {40}
A2Factors == {10}

\* The values |noise_normal.sample()| can take, rounded.
NoiseDraws == {0, 1}

\* The inputs of calculate_aggregates: two sequences of equal length.
AggregatesInputs ==
    UNION {{[op |-> "calculate_aggregates", pc |-> "called",
             mz_values |-> mz, intensity_values |-> intensity, result |-> <<0, 0, 0>>] :
              mz \in [1..n -> {100, 200}], intensity \in [1..n -> 1..3]} :
           n \in 0..MaxPeaks}

\* The inputs of generate_ms2: the precursor (whole daltons), its intensity and
\* the peak count.
Ms2Inputs ==
    {[op |-> "generate_ms2", pc |-> "called", precursor_mz |-> mz,
      precursor_intensity |-> 10000, peak_count |-> n,
      min_mz |-> 0, max_mz |-> 0, min_intensity |-> 0, max_intensity |-> 0,
      base_left |-> 0, noise_left |-> 0,
      mz_values |-> << >>, intensity_values |-> << >>, result |-> <<0, 0, 0>>] :
       mz \in {100, 106}, n \in 1..MaxPeakCount}

\* The peaks select_precursor picks among (line 190).
TopPeaks == 20

\* The fallback of line 176: (500.0, 1e6), the m/z in hundredths of a dalton.
FallbackPrecursor == <<50000, 1000000>>

\* Lines 180-187: the indices of the peaks, sorted by descending intensity.
\* The sort is stable, so peaks of equal intensity keep their order.
intensity_indices(intensity_values) ==
    sort_by([i \in 1..Len(intensity_values) |-> i],
            [i \in 1..Len(intensity_values) |-> 0 - intensity_values[i]])

\* All the peaks in place of the top 20.
top_n_unlimited(indices) == Len(indices)

\* Line 190: intensity_indices.len().min(20).
top_n(indices) == IF Len(indices) < TopPeaks THEN Len(indices) ELSE TopPeaks

\* Spectra longer than the top: m/z ascending, the intensities ascending,
\* descending, all equal, or equal but for one weaker or one stronger peak.
LongSpectra ==
    LET n == TopPeaks + 1
        shapes == {[i \in 1..n |-> i], [i \in 1..n |-> n + 1 - i], [i \in 1..n |-> 2]}
                  \cup {[i \in 1..n |-> IF i = p THEN 1 ELSE 2] : p \in 1..n}
                  \cup {[i \in 1..n |-> IF i = p THEN 3 ELSE 2] : p \in 1..n}
    IN {<<[i \in 1..n |-> 100 * i], intensity>> : intensity \in shapes}

\* The MS1 spectra select_precursor is called on: every short one, the empty
\* one included, and the long ones.
PrecursorInputs ==
    {[op |-> "select_precursor", pc |-> "called", mz_values |-> ms1[1],
      intensity_values |-> ms1[2], result |-> <<0, 0>>] :
       ms1 \in LongSpectra \cup
               UNION {[1..n -> {100, 200}] \X [1..n -> 1..3] : n \in 0..MaxPeaks}}

SynthInit ==
    /\ InitWith({Workload(0, 0, 0, 0, 0, "one")})
    /\ pacing = NoPacing
    /\ synth \in AggregatesInputs \cup Ms2Inputs \cup PrecursorInputs

\* calculate_aggregates on the given sequences.
Aggregate ==
    /\ synth.op = "calculate_aggregates" /\ synth.pc = "called"
    /\ synth' = [synth EXCEPT !.pc = "returned",
                  !.result = calculate_aggregates(synth.mz_values,
                                                  synth.intensity_values)]
    /\ UNCHANGED <<service, pacing>>

\* generate_ms2 up to its call of generate_spectrum (lines 67-80), and lines
\* 119-123 of generate_spectrum.
Ms2Begin ==
    /\ synth.op = "generate_ms2" /\ synth.pc = "called"
    /\ synth' = [synth EXCEPT !.pc = "base",
                  !.min_mz = FragmentMinMz,
                  !.max_mz = FragmentMaxMz(synth.precursor_mz),
                  !.min_intensity = synth.precursor_intensity \div 100,
                  !.max_intensity = synth.precursor_intensity \div 2,
                  !.base_left = synth.peak_count \div 5]
    /\ UNCHANGED <<service, pacing>>

\* One pass of the base-peak loop (lines 125-148): the monoisotopic peak and,
\* by the draws a1 and a2, its A+1 and A+2 isotope peaks (factor 0: none).
SpectrumBasePeak ==
    /\ synth.pc = "base" /\ synth.base_left > 0
    /\ IF RangeEmpty(synth.min_mz, synth.max_mz)
       THEN synth' = [synth EXCEPT !.pc = "panicked"]
       ELSE \E base_mz \in RangeDraws(synth.min_mz, synth.max_mz),
               base_intensity \in RangeDraws(synth.min_intensity, synth.max_intensity),
               a1 \in A1Factors \cup {0}, a2 \in A2Factors \cup {0} :
              LET p1 == IF a1 = 0 THEN << >> ELSE <<base_mz + isotope_spacing>>
                  i1 == IF a1 = 0 THEN << >> ELSE <<(base_intensity * a1) \div 100>>
                  p2 == IF a2 = 0 THEN << >> ELSE <<base_mz + 2 * isotope_spacing>>
                  i2 == IF a2 = 0 THEN << >> ELSE <<(base_intensity * a2) \div 100>>
              IN synth' = [synth EXCEPT
                     !.base_left = @ - 1,
                     !.mz_values = @ \o <<base_mz>> \o p1 \o p2,
                     !.intensity_values = @ \o <<base_intensity>> \o i1 \o i2]
    /\ UNCHANGED <<service, pacing>>

\* Line 151: the noise peaks that fill the spectrum up to peak_count.
SpectrumNoiseCount ==
    /\ synth.pc = "base" /\ synth.base_left = 0
    /\ synth' = [synth EXCEPT !.pc = "noise",
                  !.noise_left = synth.peak_count - Len(synth.mz_values)]
    /\ UNCHANGED <<service, pacing>>

\* One pass of the noise loop (lines 154-161).
SpectrumNoisePeak ==
    /\ synth.pc = "noise" /\ synth.noise_left > 0
    /\ IF RangeEmpty(synth.min_mz, synth.max_mz)
       THEN synth' = [synth EXCEPT !.pc = "panicked"]
       ELSE \E mz \in RangeDraws(synth.min_mz, synth.max_mz), noise \in NoiseDraws :
              synth' = [synth EXCEPT
                     !.noise_left = @ - 1,
                     !.mz_values = Append(@, mz),
                     !.intensity_values = Append(@, synth.min_intensity \div 100 + noise)]
    /\ UNCHANGED <<service, pacing>>

\* Lines 163-170, and back in generate_ms2 the aggregates (line 82).
SpectrumSort ==
    /\ synth.pc = "noise" /\ synth.noise_left = 0
    /\ LET indices == sort_by([i \in 1..Len(synth.mz_values) |-> i], synth.mz_values)
           sorted_mz == [i \in 1..Len(indices) |-> synth.mz_values[indices[i]]]
           sorted_intensity == [i \in 1..Len(indices) |-> synth.intensity_values[indices[i]]]
       IN synth' = [synth EXCEPT !.pc = "returned",
                     !.mz_values = sorted_mz,
                     !.intensity_values = sorted_intensity,
                     !.result = calculate_aggregates(sorted_mz, sorted_intensity)]
    /\ UNCHANGED <<service, pacing>>

\* select_precursor (lines 174-198); selected_idx is the draw of line 191.
SelectPrecursor ==
    /\ synth.op = "select_precursor" /\ synth.pc = "called"
    /\ IF synth.mz_values = << >>
       THEN synth' = [synth EXCEPT !.pc = "returned", !.result = FallbackPrecursor]
       ELSE LET indices == intensity_indices(synth.intensity_values) IN
            \E selected_idx \in 0..(top_n(indices) - 1) :
               LET peak_idx == indices[selected_idx + 1] IN
               synth' = [synth EXCEPT !.pc = "returned",
                          !.result = <<synth.mz_values[peak_idx],
                                       synth.intensity_values[peak_idx]>>]
    /\ UNCHANGED <<service, pacing>>

SynthNext ==
    \/ SelectPrecursor
    \/ Aggregate
    \/ Ms2Begin
    \/ SpectrumBasePeak
    \/ SpectrumNoiseCount
    \/ SpectrumNoisePeak
    \/ SpectrumSort

SynthSpec == SynthInit /\ [][SynthNext]_vars

\* ------------------------------------------------------------ the pacing on its own
\* The scan_rate and ms2_per_ms1 of the sessions paced: from 0.1 to 2 cycles
\* per tick.
PacingInputs ==
    {<<50, 4>>, <<60, 1>>, <<70, 4>>, <<100, 1>>, <<110, 1>>, <<140, 1>>,
     <<190, 1>>, <<200, 1>>, <<250, 1>>, <<330, 2>>, <<1000, 4>>}

\* run_acquisition before its loop (lines 71-79), no termination condition
\* set. History: the ticks taken and the cycles started so far.
PacingInit ==
    /\ InitWith({Workload(0, 0, 0, 0, 0, "one")})
    /\ synth = NoSynth
    /\ \E in \in PacingInputs :
          pacing = [req |-> Request(Params(in[1], in[2], 0, 0, 0), None, None),
                    cycle_accumulator |-> <<0, 0>>, ticks |-> 0, cycles |-> 0]

\* One tick without termination: lines 123-125, and the batch of
\* cycles_to_run cycles.
PacingTick ==
    LET acc == F64Add(pacing.cycle_accumulator,
                      cycles_per_tick(ScanRate(pacing.req), ScansPerCycle(pacing.req)))
        cycles_to_run == F64Floor(acc)
    IN
    /\ pacing.ticks < MaxTicks
    /\ pacing' = [pacing EXCEPT !.cycle_accumulator = F64SubInt(acc, cycles_to_run),
                                !.ticks = @ + 1,
                                !.cycles = @ + cycles_to_run]
    /\ UNCHANGED <<service, synth>>

PacingNext == PacingTick

PacingSpec == PacingInit /\ [][PacingNext]_vars

\* ------------------------------------------------------------ claims
\* C1: at most one producer task (run_acquisition) is alive at any time.
AtMostOneProducer == Cardinality(AliveProducers) <= 1

\* C2: a start_acquisition that reads a state other than Idle or Completed
\* replies success=false with an empty session id and a non-empty message,
\* and changes neither the state atom, the scan counter, the stored session
\* id, the generator, the producers nor what was published.
RejectedStartChangesNothing ==
    [][\A h \in StartSlots :
         (/\ starts[h].pc = "idle"
          /\ calls'.start = calls.start + 1
          /\ \A g \in StartSlots : g < h => starts[g].pc # "idle"
          /\ get_state(state) \notin {Idle, Completed})
         => /\ starts'[h].pc = "idle"
            /\ starts'[h].reply.success = FALSE
            /\ starts'[h].reply.session_id = ""
            /\ starts'[h].reply.error_message # << >>
            /\ UNCHANGED <<state, scan_count, session_id, generator, producers,
                           published>>]_vars

\* C2 witness: a second start was rejected while the first session is
\* acquiring, its producer alive.
RejectedWhileAcquiring ==
    /\ \E h \in StartSlots :
          starts[h].reply = StartRejected(Acquiring) /\ starts[h].pc = "idle"
    /\ AliveProducers # {}
    /\ Len(published) > 0

\* A start handler past its check: its producer is still to be spawned.
PendingProducers == {h \in StartSlots : starts[h].pc # "idle"}

\* C3: a stop always leads to Completed: whenever the state atom reads
\* Stopping, a producer task is alive (or about to be spawned) to observe it
\* and store Completed, which only run_acquisition does.
StoppingIsObserved ==
    get_state(state) = Stopping => AliveProducers # {} \/ PendingProducers # {}

\* C4: a stop issued while a session's producer is alive is not lost: until
\* that producer leaves its loop the state atom still reads Stopping.
StopNeverLost ==
    \A c \in cancelled :
        Alive(producers[c.producer]) =>
            get_state(state) = Stopping \/ producers[c.producer].pc = "exit"

\* The edges of the state diagram.
DiagramEdges ==
    {<<Idle, Starting>>, <<Completed, Starting>>, <<Starting, Acquiring>>,
     <<Acquiring, Stopping>>, <<Stopping, Completed>>, <<Acquiring, Completed>>}

\* C5: every change of the state atom is an edge of the state diagram.
StateChangesFollowDiagram ==
    [][state' # state => <<get_state(state), get_state(state')>> \in DiagramEdges]_vars

\* The scans published from the k-th accepted start to the next one.
SessionScans(k) ==
    SubSeq(published, sessions[k].from + 1,
           IF k < Len(sessions) THEN sessions[k + 1].from ELSE Len(published))

\* C6: the scans of a session carry the scan numbers 1, 2, 3, ... in
\* publication order.
ScanNumbersConsecutive ==
    \A k \in 1..Len(sessions) :
        \A i \in 1..Len(SessionScans(k)) : SessionScans(k)[i].scan_number = i

\* The run C7 is about: one accepted start, capped by max_scans only, no stop.
SingleCappedRun ==
    /\ Len(sessions) = 1
    /\ calls.stop = 0
    /\ IsSome(sessions[1].req.max_scans)
    /\ ~IsSome(sessions[1].req.max_duration_seconds)

CappedRunSafety ==
    SingleCappedRun =>
        LET n == Unwrap(sessions[1].req.max_scans) IN
        /\ Len(published) <= n
        /\ get_state(state) = Completed => Len(published) = n /\ scan_count = n
        /\ (status.pc = "idle" /\ status.state = Completed) => status.scan_count = n

ProducerEnded == producers # << >> /\ AliveProducers = {}

StopCountIsFinal ==
    \A c \in cancelled :
        (/\ Len(sessions) = 1
         /\ c.state = Acquiring
         /\ stop.pc = "idle"
         /\ ~Alive(producers[c.producer]))
        => stop.final_scan_count = Len(published)

\* C9: two sessions started with the same request, its random_seed not 0 and
\* both run to their max_scans, publish the same scans.
SeededRunsRepeat ==
    \A i, j \in 1..Len(sessions) :
        (/\ i < j
         /\ sessions[i].req = sessions[j].req
         /\ sessions[i].req.simulation.random_seed # 0
         /\ IsSome(sessions[i].req.max_scans)
         /\ Len(SessionScans(i)) = Unwrap(sessions[i].req.max_scans)
         /\ Len(SessionScans(j)) = Unwrap(sessions[j].req.max_scans))
        => SessionScans(i) = SessionScans(j)

\* The configurations C10 calls valid.
ValidMzRange(sim) == sim.min_mz > 0 /\ sim.max_mz > 0 /\ sim.min_mz < sim.max_mz

\* C10: a start whose m/z range is invalid is refused: no start handler goes
\* past its check with such a request and no producer is spawned for one.
InvalidConfigRejected ==
    /\ \A k \in 1..Len(sessions) : ValidMzRange(sessions[k].req.simulation)
    /\ \A p \in 1..Len(producers) : ValidMzRange(producers[p].req.simulation)

\* C11: a producer started with a valid configuration (0 < min_mz < max_mz)
\* never faults while generating: no such task has panicked.
ValidConfigNeverFaults ==
    \A p \in 1..Len(producers) :
        ValidMzRange(producers[p].req.simulation) => producers[p].pc # "panicked"

\* C12: an MS2 scan published right after the MS1 scan its precursor was
\* selected from carries that MS1 scan's retention_time.
Ms2KeepsRetentionTime ==
    \A k \in 1..Len(sessions) :
        LET scans == SessionScans(k) IN
        \A i \in 2..Len(scans) :
            (/\ scans[i].ms_order = 2
             /\ scans[i - 1].ms_order = 1
             /\ Unwrap(scans[i].precursor)[1] = scans[i - 1].spectrum)
            => scans[i].retention_time = scans[i - 1].retention_time

\* C14: a session configured with ms2_per_ms1 = 0 publishes MS1 scans only.
ZeroMs2MeansMs1Only ==
    \A k \in 1..Len(sessions) :
        sessions[k].req.simulation.ms2_per_ms1 = 0 =>
            \A i \in 1..Len(SessionScans(k)) : SessionScans(k)[i].ms_order = 1

\* The places in a task's sent where a cycle starts (an MS1 scan).
CycleStarts(sent) == {i \in 1..Len(sent) : sent[i] = 1}

\* The number of MS2 scans sent after the MS1 at i and before the next MS1.
Ms2After(sent, i) ==
    LET later == {j \in CycleStarts(sent) : j > i}
        next == IF later = {} THEN Len(sent) + 1
                ELSE CHOOSE j \in later : \A l \in later : j <= l
    IN next - i - 1

\* C15: with ms2_per_ms1 = M >= 1 a producer sends blocks of one MS1 and M
\* MS2 scans: it starts with an MS1, every block followed by another block
\* is complete, and the last one has at most M MS2 scans.
BlocksOfOnePlusM ==
    \A p \in 1..Len(producers) :
        LET sent == producers[p].sent
            M == producers[p].req.simulation.ms2_per_ms1
        IN M >= 1 =>
            /\ sent # << >> => sent[1] = 1
            /\ \A i \in CycleStarts(sent) :
                  /\ Ms2After(sent, i) <= M
                  /\ i + Ms2After(sent, i) < Len(sent) => Ms2After(sent, i) = M

\* C16: what a stream has yielded to its peer is exactly the scans at the
\* positions its receiver read, all sent after it attached and in sending
\* order without repeats; between the attachment and the receiver's position
\* the only scans not yielded are those its lag events dropped, and no lag
\* event was yielded in any form.
StreamsYieldScansInOrder ==
    \A i \in 1..Len(streams) :
        LET s == streams[i] IN
        /\ Len(s.received) = Len(s.positions)
        /\ \A k \in 1..Len(s.received) :
              /\ s.received[k].ok
              /\ s.received[k].scan = published[s.positions[k]]
              /\ s.positions[k] > s.from
              /\ k > 1 => s.positions[k - 1] < s.positions[k]
        /\ s.next - s.from = Len(s.positions) + s.lagged
        /\ s.lagged = 0 =>
              \A k \in 1..Len(s.positions) : s.positions[k] = s.from + k

\* C16 witness: a stream lagged, its lag event was skipped, and it went on
\* to yield a later scan.
StreamLaggedThenYielded ==
    \E i \in 1..Len(streams) :
        streams[i].lagged > 0 /\ streams[i].received # << >>

\* C17: a pause_acquisition or resume_acquisition call replies success=false
\* with a non-empty message and changes neither the state atom, the scan
\* counter, the session id, the generator nor any producer.
PauseResumeChangeNothing ==
    [][calls'.control # calls.control =>
         /\ control'.success = FALSE
         /\ control'.error_message # ""
         /\ UNCHANGED <<state, scan_count, session_id, generator, producers,
                        published>>]_vars

\* C17 witness: pause was answered while the session was stopping with its
\* producer alive.
PausedWhileStopping ==
    /\ control = PauseReply
    /\ get_state(state) = Stopping
    /\ AliveProducers # {}

\* C19: the duration cap is checked before every scan: no producer goes from
\* the head of a cycle or of an MS2 pass on to generating a scan once the
\* elapsed time exceeds max_duration_seconds.
DurationCheckedBeforeEveryScan ==
    [][\A p \in 1..Len(producers) :
         (/\ producers[p].pc \in {"cycle", "ms2_check"}
          /\ producers'[p].pc \in {"ms1_generate", "ms2_generate"})
         => ~DurationReached(producers[p])]_vars

\* A generate_ms2 call that has returned its scan.
Ms2Returned == synth.op = "generate_ms2" /\ synth.pc = "returned"

\* C13: every m/z value of an MS2 scan is below precursor_mass * 0.95, up to
\* a tolerance of a hundredth of a dalton.
Ms2PeaksBelowPrecursor ==
    Ms2Returned =>
        \A i \in 1..Len(synth.mz_values) :
            synth.mz_values[i] < FragmentMaxMz(synth.precursor_mz) + 1

\* The sum of a sequence of numbers.
RECURSIVE SumOf(_)
SumOf(seq) == IF seq = << >> THEN 0 ELSE Head(seq) + SumOf(Tail(seq))

\* C18: for sequences of equal length calculate_aggregates returns the m/z at
\* the first index holding the maximum intensity, that maximum, and the sum
\* of the intensities; for empty input it returns (0, 0, 0).
AggregatesAreSumAndFirstMax ==
    (synth.op = "calculate_aggregates" /\ synth.pc = "returned") =>
        LET mz == synth.mz_values
            intensity == synth.intensity_values
        IN IF mz = << >>
           THEN synth.result = <<0, 0, 0>>
           ELSE LET first == CHOOSE i \in 1..Len(intensity) :
                        /\ \A j \in 1..Len(intensity) : intensity[j] <= intensity[i]
                        /\ \A j \in 1..(i - 1) : intensity[j] < intensity[i]
                IN synth.result = <<mz[first], intensity[first], SumOf(intensity)>>

\* C18 witness: calculate_aggregates has returned for an input in which the
\* maximum intensity occurs twice, at different m/z.
AggregatesOfTie ==
    /\ synth.op = "calculate_aggregates" /\ synth.pc = "returned"
    /\ Len(synth.mz_values) = 3
    /\ synth.intensity_values = <<2, 3, 3>>
    /\ synth.mz_values = <<100, 100, 200>>
    /\ synth.result = <<100, 3, 8>>

\* The accumulator is in [0, 1).
AccumulatorInUnit ==
    /\ pacing.cycle_accumulator[1] >= 0 /\ pacing.cycle_accumulator[2] >= 0
    /\ pacing.cycle_accumulator[1] < Limb

\* floor(n * c) for the n ticks taken, c the configured rate per tick:
\* scan_rate / scans_per_cycle / 100.
ExactCycles ==
    (pacing.ticks * ScanRate(pacing.req)) \div (100 * ScansPerCycle(pacing.req))

\* n * c is a whole number.
ExactlyOnTick ==
    (pacing.ticks * ScanRate(pacing.req)) % (100 * ScansPerCycle(pacing.req)) = 0

\* C20 as stated: after every tick the accumulator is in [0, 1) and the
\* cycles started after n ticks number floor(n * c).
PacingIsExact ==
    AccumulatorInUnit /\ pacing.cycles = ExactCycles

\* C20: after every tick the accumulator is in [0, 1); the cycles started
\* after n ticks number floor(n * c), or one fewer at a tick where n * c is a
\* whole number that the rounded f64 sum has not reached (the cycle then
\* starts a tick late); no cycle is added.
PacingIsExactUpToOneLateCycle ==
    /\ AccumulatorInUnit
    /\ \/ pacing.cycles = ExactCycles
       \/ ExactlyOnTick /\ pacing.cycles = ExactCycles - 1

\* C20 witness: at 0.1 cycles per tick (50 scans/s in cycles of 5) ten ticks
\* have passed, the accumulator is just below 1 and the first cycle has not
\* started.
SubUnitRateStartsCycleLate ==
    /\ ScanRate(pacing.req) = 50 /\ ScansPerCycle(pacing.req) = 5
    /\ pacing.ticks = 10 /\ pacing.cycles = 0
    /\ pacing.cycle_accumulator[1] = Limb - 1

\* ------------------------------------------------------------ C21
\* Peak i is among the k most intense peaks: fewer than k peaks are strictly
\* more intense.
AmongMostIntense(intensity_values, i, k) ==
    Cardinality({j \in 1..Len(intensity_values) :
                   intensity_values[j] > intensity_values[i]}) < k

\* C21: the precursor select_precursor returns is the (m/z, intensity) pair
\* at one index of the MS1 spectrum, an index among the min(20, len) most
\* intense peaks; for a spectrum without peaks it is (500.0, 1e6).
PrecursorIsOneOfTopPeaks ==
    (synth.pc = "returned" /\ synth.op = "select_precursor") =>
        IF Len(synth.mz_values) = 0
        THEN synth.result = FallbackPrecursor
        ELSE \E i \in 1..Len(synth.mz_values) :
                /\ synth.result = <<synth.mz_values[i], synth.intensity_values[i]>>
                /\ AmongMostIntense(synth.intensity_values, i,
                       IF Len(synth.mz_values) < 20 THEN Len(synth.mz_values) ELSE 20)

\* select_precursor has returned the weakest peak it may pick from a
\* spectrum of more than 20 peaks: 19 peaks are stronger, and a weaker one was
\* left out.
PrecursorIsTwentiethOfMore ==
    /\ synth.pc = "returned" /\ synth.op = "select_precursor"
    /\ Len(synth.mz_values) > 20
    /\ Cardinality({j \in 1..Len(synth.mz_values) :
                      synth.intensity_values[j] > synth.result[2]}) = 19
    /\ \E j \in 1..Len(synth.mz_values) : synth.intensity_values[j] < synth.result[2]

\* ------------------------------------------------------------ C22
\* C22: whenever no producer task is alive and none is about to be spawned,
\* the state atom reads Idle or Completed, the two states in which
\* start_acquisition accepts a call.
QuiescentServiceAcceptsStart ==
    (AliveProducers = {} /\ PendingProducers = {}) =>
        StartAllowed(get_state(state))

\* ------------------------------------------------------------ C23
\* C23: the (state, scan_count, session_id) triple a get_status call returns
\* is a consistent snapshot: at some instant during the call the state atom,
\* the counter and the session-id cell held exactly those three values
\* together.
StatusIsConsistentSnapshot ==
    (status.pc = "idle" /\ calls.status > 0) =>
        [state |-> status.state, scan_count |-> status.scan_count,
         session_id |-> status.session_id] \in status.seen

====
